---- MODULE Spec2Model ----
(***************************************************************************)
(* Verification model of the RAG pipeline and the tool-calling chat loop   *)
(* of realestate_mappro:                                                   *)
(*   - DocumentChunker.chunk_text        (backend/file_processors.py)      *)
(*   - store_document_for_rag            (backend/simple_backend.py)       *)
(*   - RAGService                        (backend/services/rag_service.py) *)
(*   - ClaudeService.chat                (backend/services/claude_service) *)
(* Each component has its own specification over its own variables; the    *)
(* variables of the other components stay at their initial values.         *)
(***************************************************************************)
EXTENDS Integers, Sequences, FiniteSets, TLC

VARIABLES
    \* ---- DocumentChunker.chunk_text: its arguments and locals, and the
    \* slice of the text each emitted chunk was taken from
    text, chunk_size, overlap, start, chunks, ck_pc, ck_iter, ranges,
    \* ---- store_document_for_rag: the committed tables, the session's
    \* uncommitted rows, and the locals of the call in progress
    documents, document_chunks, sess_documents, sess_chunks,
    next_doc_id, ing_pc, ing_doc, ing_n, chunk_count, ing_ret,
    \* ---- RAGService: the two settings it reads, its document_chunks table
    \* in storage order, and what the last search_documents call returned
    api_key_set, embedding_dim, rag_chunks, rag_ret,
    \* ---- ClaudeService.chat: its argument, its locals, what it returned,
    \* what the collaborators behind the two tools answer during the turn,
    \* and the kind of language model that answers
    conversation_history, messages, response, sources, tool_results,
    chat_pc, n_calls, rounds, chat_ret, search_env, arcgis_env, llm_mode,
    \* ---- simple_backend.chat: what search_poi answers during the turn, the
    \* locals of the endpoint, the messages of its latest model call, and
    \* what it returned
    poi_env, sb_response, tool_calls, all_geojson_features, sb_messages,
    sb_pc, sb_n_calls, sb_ret,
    \* ---- routes/chat.py send_message: the committed chat_messages table in
    \* timestamp order and, per request in flight, its session id, its
    \* position, the messages it built for the model, and what it answered
    chat_messages, req_session, req_pc, req_messages, req_ret,
    \* ---- routes/chat.py clear_chat_history: the session of the one delete
    \* request, how far it got, and what it returned
    clr_session, clr_pc, clr_ret,
    \* ---- FileProcessor._process_pdf: the text of each page, the configured
    \* chunk size, the chunk dicts it returned, and how far the upload got
    pdf_pages, pdf_chunk_size, pdf_chunks, pdf_pc

ck_vars == <<text, chunk_size, overlap, start, chunks, ck_pc, ck_iter, ranges>>
ing_vars == <<documents, document_chunks, sess_documents, sess_chunks,
              next_doc_id, ing_pc, ing_doc, ing_n, chunk_count, ing_ret>>
rag_vars == <<api_key_set, embedding_dim, rag_chunks, rag_ret>>
chat_vars == <<conversation_history, messages, response, sources, tool_results,
               chat_pc, n_calls, rounds, chat_ret, search_env, arcgis_env,
               llm_mode>>
sb_vars == <<poi_env, sb_response, tool_calls, all_geojson_features,
             sb_messages, sb_pc, sb_n_calls, sb_ret>>
clr_vars == <<clr_session, clr_pc, clr_ret>>
route_vars == <<chat_messages, req_session, req_pc, req_messages, req_ret, clr_vars>>
pdf_vars == <<pdf_pages, pdf_chunk_size, pdf_chunks, pdf_pc>>
vars == <<ck_vars, ing_vars, rag_vars, chat_vars, sb_vars, route_vars, pdf_vars>>

\* What each component leaves alone.
not_ck_vars == <<ing_vars, rag_vars, chat_vars, sb_vars, route_vars, pdf_vars>>
not_ing_vars == <<ck_vars, rag_vars, chat_vars, sb_vars, route_vars, pdf_vars>>
not_rag_vars == <<ck_vars, ing_vars, chat_vars, sb_vars, route_vars, pdf_vars>>
not_chat_vars == <<ck_vars, ing_vars, rag_vars, sb_vars, route_vars, pdf_vars>>
not_sb_vars == <<ck_vars, ing_vars, rag_vars, chat_vars, route_vars, pdf_vars>>
not_pdf_vars == <<ck_vars, ing_vars, rag_vars, chat_vars, sb_vars, route_vars>>
not_pdf_rag_vars == <<ck_vars, ing_vars, chat_vars, sb_vars, route_vars>>
not_route_vars == <<ck_vars, ing_vars, rag_vars, chat_vars, sb_vars, pdf_vars>>

(***************************************************************************)
(* Bounds of the model                                                     *)
(***************************************************************************)
MaxLen == 4        \* longest text handed to chunk_text
MaxSize == 8       \* largest chunk_size
MaxLongLen == 9    \* longest sample text handed to chunk_text
MaxOverlap == 3    \* largest overlap
MaxIter == 6       \* loop iterations of chunk_text that are followed
MaxChunks == 51    \* most chunks of one uploaded document
MaxDocs == 2       \* uploads that are followed
MaxRows == 2       \* most rows of RAGService's document_chunks table
MaxK == 2          \* largest max_results of a search
MaxModelCalls == 12  \* answers of the language model followed in one turn
MaxBlocks == 2     \* most tool_use blocks in one answer
RichCalls == 1     \* answers whose tool requests range over every tool
MaxSbRounds == 2   \* tool requests of one turn of simple_backend.chat
MaxRequests == 2   \* chat requests in flight at the same time
MaxStored == 7     \* exchanges in the fullest chat_messages table a request finds
MaxPages == 2      \* most pages of an uploaded PDF
MaxPageLen == 2    \* most characters on a page, and largest settings.chunk_size

(***************************************************************************)
(* Helpers: Python's sequence primitives                                   *)
(***************************************************************************)
SetMax(S) == CHOOSE x \in S : \A y \in S : y <= x

Max2(a, b) == IF a >= b THEN a ELSE b

\* A slice bound as Python normalises it: negative counts from the end,
\* then clamped into 0..n.
NormIdx(i, n) ==
    IF i < 0 THEN (IF i + n < 0 THEN 0 ELSE i + n)
    ELSE IF i > n THEN n ELSE i

\* s[a:b] (0-based, half open).
Slice(s, a, b) ==
    LET lo == NormIdx(a, Len(s))
        hi == NormIdx(b, Len(s))
    IN IF lo >= hi THEN <<>> ELSE SubSeq(s, lo + 1, hi)

\* s.rfind(sub, a, b): the highest 0-based index in the slice where sub
\* starts and fits, or -1.
rfind(s, sub, a, b) ==
    LET lo == NormIdx(a, Len(s))
        hi == NormIdx(b, Len(s))
        found == {i \in lo..(hi - Len(sub)) : SubSeq(s, i + 1, i + Len(sub)) = sub}
    IN IF found = {} THEN -1 ELSE SetMax(found)

Whitespace == {" ", "\n"}

\* s.strip()
strip(s) ==
    LET keep == {i \in 1..Len(s) : s[i] \notin Whitespace}
    IN IF keep = {} THEN <<>>
       ELSE SubSeq(s, CHOOSE i \in keep : \A j \in keep : i <= j, SetMax(keep))

(***************************************************************************)
(* DocumentChunker.chunk_text                                              *)
(***************************************************************************)
Alphabet == {"a", ".", "!", "?", " ", "\n"}

\* A longer text of n characters with one sentence end, at offset dot.
SampleText(n, dot) ==
    [i \in 1..n |-> IF i = dot THEN "." ELSE IF i = dot + 1 THEN " " ELSE "a"]

\* Every text of up to MaxLen characters, and the longer sample texts.
Texts ==
    UNION {[1..n -> Alphabet] : n \in 0..MaxLen} \cup
    {SampleText(n, dot) : n \in (MaxLen + 1)..MaxLongLen, dot \in {2, 4}}

\* max(rfind('. '), rfind('! '), rfind('? '), rfind('\n\n')) over [start, end)
sentence_end(t, s, e) ==
    Max2(Max2(rfind(t, <<".", " ">>, s, e), rfind(t, <<"!", " ">>, s, e)),
         Max2(rfind(t, <<"?", " ">>, s, e), rfind(t, <<"\n", "\n">>, s, e)))

\* The end of the chunk that begins at cursor s: the raw boundary, pulled back
\* to just after a sentence terminator when the boundary is inside the text.
chunk_end(t, s, size) ==
    LET e == s + size
    IN IF e < Len(t) /\ sentence_end(t, s, e) > s
       THEN sentence_end(t, s, e) + 1
       ELSE e

\* next_start, stepping back by the overlap also after the last chunk
next_start_always_back(t, e, ov) == e - ov

\* The cursor of the next iteration.
next_start(t, e, ov) == IF e < Len(t) THEN e - ov ELSE e

ChunkIdle ==
    /\ text = <<>>
    /\ chunk_size = 1
    /\ overlap = 0
    /\ start = 0
    /\ chunks = <<>>
    /\ ranges = <<>>
    /\ ck_iter = 0
    /\ ck_pc = "returned"

ChunkInit ==
    /\ text \in Texts
    /\ chunk_size \in 1..MaxSize
    /\ overlap \in 0..MaxOverlap
    /\ start = 0
    /\ chunks = <<>>
    /\ ranges = <<>>
    /\ ck_iter = 0
    /\ ck_pc = "entry"

\* `if not text or len(text) == 0: return []`, else enter the loop.
ChunkEnter ==
    /\ ck_pc = "entry"
    /\ ck_pc' = IF Len(text) = 0 THEN "returned" ELSE "loop"
    /\ UNCHANGED <<text, chunk_size, overlap, start, chunks, ck_iter, ranges>>
    /\ UNCHANGED not_ck_vars

\* One iteration of `while start < len(text)`.
ChunkIter ==
    /\ ck_pc = "loop"
    /\ start < Len(text)
    /\ ck_iter < MaxIter
    /\ LET e == chunk_end(text, start, chunk_size)
           chunk == strip(Slice(text, start, e))
       IN /\ chunks' = IF chunk # <<>> THEN Append(chunks, chunk) ELSE chunks
          /\ ranges' = IF chunk # <<>>
                        THEN Append(ranges, <<NormIdx(start, Len(text)),
                                              NormIdx(e, Len(text))>>)
                        ELSE ranges
          /\ start' = next_start(text, e, overlap)
    /\ ck_iter' = ck_iter + 1
    /\ UNCHANGED <<text, chunk_size, overlap, ck_pc>>
    /\ UNCHANGED not_ck_vars

\* The loop condition fails: `return chunks`.
ChunkReturn ==
    /\ ck_pc = "loop"
    /\ start >= Len(text)
    /\ ck_pc' = "returned"
    /\ UNCHANGED <<text, chunk_size, overlap, start, chunks, ck_iter, ranges>>
    /\ UNCHANGED not_ck_vars

ChunkNext == ChunkEnter \/ ChunkIter \/ ChunkReturn

(***************************************************************************)
(* store_document_for_rag (simple_backend.py): one Document row, then one  *)
(* DocumentChunk row per chunk, each embedded by the local model           *)
(***************************************************************************)
CommitEvery == 50     \* `if chunk_count % 50 == 0: db.commit()`
MiniLMDim == 384      \* Vector(384), all-MiniLM-L6-v2

NoReturn == <<-1, -1>>

IngestIdle ==
    /\ documents = {}
    /\ document_chunks = {}
    /\ sess_documents = {}
    /\ sess_chunks = {}
    /\ next_doc_id = 1
    /\ ing_pc = "idle"
    /\ ing_doc = 0
    /\ ing_n = 0
    /\ chunk_count = 0
    /\ ing_ret = NoReturn

\* A DocumentChunk row; the document id is database-generated and the index
\* comes from enumerate(), so a row is identified by the pair.
ChunkRow(doc, idx) ==
    [document_id |-> doc, chunk_index |-> idx, dim |-> MiniLMDim]

\* Whether the count just reached triggers the intermediate commit.
commit_due(count) == count % CommitEvery = 0

\* `if not RAG_AVAILABLE or 'text_content' not in pdf_data: return (0, 0)`
StoreSkip ==
    /\ ing_pc \in {"idle", "returned", "failed"}
    /\ next_doc_id <= MaxDocs
    /\ ing_pc' = "returned"
    /\ ing_ret' = <<0, 0>>
    /\ ing_doc' = 0
    /\ ing_n' = 0
    /\ chunk_count' = 0
    /\ UNCHANGED <<documents, document_chunks, sess_documents, sess_chunks,
                   next_doc_id>>
    /\ UNCHANGED not_ing_vars

\* db.add(doc); db.flush(); chunks = chunk_text(...); chunk_count = 0
StoreBegin ==
    /\ ing_pc \in {"idle", "returned", "failed"}
    /\ next_doc_id <= MaxDocs
    /\ \E n \in 0..MaxChunks : ing_n' = n
    /\ ing_doc' = next_doc_id
    /\ next_doc_id' = next_doc_id + 1
    /\ sess_documents' = {next_doc_id}
    /\ sess_chunks' = {}
    /\ chunk_count' = 0
    /\ ing_ret' = NoReturn
    /\ ing_pc' = "loop"
    /\ UNCHANGED <<documents, document_chunks>>
    /\ UNCHANGED not_ing_vars

\* One iteration of the chunk loop whose embedding succeeds: the row is
\* added, and every CommitEvery rows the session is committed.
StoreChunk ==
    /\ ing_pc = "loop"
    /\ chunk_count < ing_n
    /\ chunk_count' = chunk_count + 1
    /\ LET added == sess_chunks \cup {ChunkRow(ing_doc, chunk_count)}
       IN IF commit_due(chunk_count + 1)
          THEN /\ documents' = documents \cup sess_documents
               /\ document_chunks' = document_chunks \cup added
               /\ sess_documents' = {}
               /\ sess_chunks' = {}
          ELSE /\ sess_chunks' = added
               /\ UNCHANGED <<documents, document_chunks, sess_documents>>
    /\ UNCHANGED <<next_doc_id, ing_pc, ing_doc, ing_n, ing_ret>>
    /\ UNCHANGED not_ing_vars

\* An iteration whose EMBEDDING_MODEL.encode raises: the except branch rolls
\* the session back and returns (0, 0).
StoreChunkFails ==
    /\ ing_pc = "loop"
    /\ chunk_count < ing_n
    /\ sess_documents' = {}
    /\ sess_chunks' = {}
    /\ ing_ret' = <<0, 0>>
    /\ ing_pc' = "failed"
    /\ UNCHANGED <<documents, document_chunks, next_doc_id, ing_doc, ing_n,
                   chunk_count>>
    /\ UNCHANGED not_ing_vars

\* After the loop: db.commit(); return (1, chunk_count)
StoreFinish ==
    /\ ing_pc = "loop"
    /\ chunk_count = ing_n
    /\ documents' = documents \cup sess_documents
    /\ document_chunks' = document_chunks \cup sess_chunks
    /\ sess_documents' = {}
    /\ sess_chunks' = {}
    /\ ing_ret' = <<1, chunk_count>>
    /\ ing_pc' = "returned"
    /\ UNCHANGED <<next_doc_id, ing_doc, ing_n, chunk_count>>
    /\ UNCHANGED not_ing_vars

IngestNext ==
    StoreSkip \/ StoreBegin \/ StoreChunk \/ StoreChunkFails \/ StoreFinish


(***************************************************************************)
(* RAGService (services/rag_service.py)                                    *)
(*                                                                         *)
(* An embedding is [dim, v]: a vector of `dim` components of which the     *)
(* first two are v and the others are 0, so that dot products and norms    *)
(* are those of v.  The provider returns vectors of the dimension of the   *)
(* configured model, never the zero vector.                                *)
(***************************************************************************)
FallbackDim == 1536                \* `[0.0] * 1536`
LargeDim == 2 * FallbackDim        \* a model of another dimension
ModelDims == {FallbackDim, LargeDim}

ProviderVecs == {<<1, 0>>, <<-1, 0>>, <<1, 1>>}
ZeroVec == <<0, 0>>

\* `[0.0] * 1536`
Placeholder == [dim |-> FallbackDim, v |-> ZeroVec]

DocIds == {"d1", "d2"}
NoIndex == -1
\* A chunk dict: only its optional "chunk_index" key matters to the index.
ChunkDicts == {NoIndex, 0, 1}
ChunkLists == UNION {[1..n -> ChunkDicts] : n \in 1..MaxRows}

\* What the embeddings API does with a batch of n texts: it raises, or it
\* answers one vector per text.
ProviderOutcomes(n) ==
    {[ok |-> FALSE, vecs |-> <<>>]} \cup
    {[ok |-> TRUE, vecs |-> f] : f \in [1..n -> ProviderVecs]}

\* RAGService.create_embeddings: fails open with zero vectors.
create_embeddings(n, outcome) ==
    IF ~api_key_set \/ ~outcome.ok
    THEN [i \in 1..n |-> Placeholder]
    ELSE [i \in 1..n |-> [dim |-> embedding_dim, v |-> outcome.vecs[i]]]

\* The DocumentChunkModel rows store_document_chunks adds for one call.
new_rows(document_id, chunk_list, embeddings) ==
    [i \in 1..Len(chunk_list) |->
        [document_id |-> document_id,
         chunk_index |-> IF chunk_list[i] = NoIndex THEN i - 1 ELSE chunk_list[i],
         embedding |-> embeddings[i]]]

NoSearch == [op |-> "none"]

RagInit ==
    /\ api_key_set \in BOOLEAN
    /\ embedding_dim \in ModelDims
    /\ rag_chunks = <<>>
    /\ rag_ret = NoSearch

RagIdle ==
    /\ api_key_set = FALSE
    /\ embedding_dim = FallbackDim
    /\ rag_chunks = <<>>
    /\ rag_ret = NoSearch

\* RAGService.store_document_chunks
StoreDocumentChunks ==
    /\ \E d \in DocIds, cl \in ChunkLists :
         /\ Len(rag_chunks) + Len(cl) <= MaxRows
         /\ \E out \in ProviderOutcomes(Len(cl)) :
              rag_chunks' = rag_chunks \o
                  new_rows(d, cl, create_embeddings(Len(cl), out))
    /\ rag_ret' = NoSearch
    /\ UNCHANGED <<api_key_set, embedding_dim>>
    /\ UNCHANGED not_rag_vars

Dot(u, w) == u[1] * w[1] + u[2] * w[2]

Sign(x) == IF x > 0 THEN 1 ELSE IF x < 0 THEN -1 ELSE 0

\* RAGService._cosine_similarity, in exact arithmetic: the score
\* dot / (norm1 * norm2) is kept as its sign and its square num / den.
\* A zero norm gives 0.0.
cosine_similarity(vec1, vec2) ==
    LET n1 == Dot(vec1.v, vec1.v)
        n2 == Dot(vec2.v, vec2.v)
        d == Dot(vec1.v, vec2.v)
    IN IF n1 = 0 \/ n2 = 0
       THEN [sgn |-> 0, num |-> 0, den |-> 1]
       ELSE [sgn |-> Sign(d), num |-> d * d, den |-> n1 * n2]

\* np.dot raises ValueError on vectors of different sizes.
shapes_aligned(vec1, vec2) == vec1.dim = vec2.dim

ScoreGreater(a, b) == a.sgn * a.num * b.den > b.sgn * b.num * a.den
ScoreEqual(a, b) == a.sgn * a.num * b.den = b.sgn * b.num * a.den

\* The rows the query reads, as positions of the table in storage order.
candidates(filter) ==
    LET keep == {i \in 1..Len(rag_chunks) :
                    filter = "none" \/ rag_chunks[i].document_id = filter}
        F[i \in 0..Len(rag_chunks)] ==
            IF i = 0 THEN <<>>
            ELSE IF i \in keep THEN Append(F[i - 1], i) ELSE F[i - 1]
    IN F[Len(rag_chunks)]

\* results.sort(key=score, reverse=True): a stable sort, so equal scores keep
\* the order of the input.
sort_by_score(results) ==
    LET n == Len(results)
        rank(i) == Cardinality({j \in 1..n :
                        \/ ScoreGreater(results[j].score, results[i].score)
                        \/ (j < i /\ ScoreEqual(results[j].score, results[i].score))}) + 1
    IN [p \in 1..n |-> results[CHOOSE i \in 1..n : rank(i) = p]]

\* A slice that keeps one result too many.
top_results_off_by_one(results, max_results) ==
    SubSeq(results, 1,
           IF max_results + 1 < Len(results) THEN max_results + 1 ELSE Len(results))

\* results[:max_results], for max_results >= 1
top_results(results, max_results) ==
    SubSeq(results, 1, IF max_results < Len(results) THEN max_results ELSE Len(results))

\* RAGService.search_documents
search_documents(query_embedding, max_results, filter) ==
    LET cand == candidates(filter)
        results == [i \in 1..Len(cand) |->
                      [pos |-> cand[i],
                       chunk |-> rag_chunks[cand[i]],
                       score |-> cosine_similarity(query_embedding,
                                                   rag_chunks[cand[i]].embedding)]]
    IN IF \E i \in 1..Len(cand) :
            ~shapes_aligned(query_embedding, rag_chunks[cand[i]].embedding)
       THEN [op |-> "search", status |-> "raised", query |-> query_embedding,
             k |-> max_results, filter |-> filter, results |-> <<>>]
       ELSE [op |-> "search", status |-> "ok", query |-> query_embedding,
             k |-> max_results, filter |-> filter,
             results |-> top_results(sort_by_score(results), max_results)]

SearchDocuments ==
    /\ \E out \in ProviderOutcomes(1), k \in 1..MaxK, f \in {"none"} \cup DocIds :
         rag_ret' = search_documents(create_embeddings(1, out)[1], k, f)
    /\ UNCHANGED <<api_key_set, embedding_dim, rag_chunks>>
    /\ UNCHANGED not_rag_vars

RagNext == StoreDocumentChunks \/ SearchDocuments


(***************************************************************************)
(* ClaudeService.chat (services/claude_service.py)                         *)
(*                                                                         *)
(* The language model is free: each answer is final text or a tool-use     *)
(* request.  Two families of models are followed: a "varied" one, whose    *)
(* first RichCalls answers may request any tools with any inputs and whose *)
(* later answers are final, and a "persistent" one, which may ask for one  *)
(* document search again and again.  What the document index and the       *)
(* ArcGIS service answer is fixed for the turn.                            *)
(***************************************************************************)
ToolNames == {"search_documents", "query_arcgis", "get_weather"}

SearchHit(name, page) == [document_name |-> name, page_number |-> page]

\* What rag_service.search_documents does: raise, or return hits
\* (page_number 0 stands for None).
SearchEnvs ==
    {[raises |-> TRUE, hits |-> <<>>],
     [raises |-> FALSE, hits |-> <<>>],
     [raises |-> FALSE, hits |-> <<SearchHit("report.pdf", 3)>>],
     [raises |-> FALSE, hits |-> <<SearchHit("report.pdf", 3), SearchHit("appraisal.pdf", 0),
                                   SearchHit("report.pdf", 3)>>]}

\* What arcgis_client.query_layer does: raise, or return features.
ArcgisEnvs == {[raises |-> TRUE, features |-> <<>>],
               [raises |-> FALSE, features |-> <<"parcel-1">>]}

Histories ==
    {<<>>,
     <<[role |-> "user", content |-> "earlier question"],
       [role |-> "assistant", content |-> "earlier answer"]>>}

\* A JSON value of a tool input, with its JSON type.
Str(s) == [type |-> "string", v |-> s]
Integer(s) == [type |-> "integer", v |-> s]

\* dict.get(key, default)
Get(d, key, default) == IF key \in DOMAIN d THEN d[key] ELSE default

\* The inputs the model may send with a request for a tool: one that fits
\* the tool's input_schema and, for the document search, one without the
\* required field and one whose `query` is no string.
ToolInputs(name) ==
    IF name = "search_documents"
    THEN {[query |-> Str("cap rates")], [max_results |-> Integer("5")],
          [query |-> Integer("7")]}
    ELSE IF name = "query_arcgis"
    THEN {[layer |-> Str("parcels")]}
    ELSE {[city |-> Str("Austin")]}

ToolUse(id, name, input) ==
    [type |-> "tool_use", id |-> id, name |-> name, input |-> input]

TextBlock(t) == [type |-> "text", text |-> t]

\* The answers the model may give to its n-th call of the turn.
ToolCalls == {c \in [name : ToolNames,
                      input : UNION {ToolInputs(t) : t \in ToolNames}] :
                 c.input \in ToolInputs(c.name)}

ToolRequests(n) ==
    IF llm_mode = "varied"
    THEN IF n > RichCalls THEN {}
         ELSE UNION {{[i \in 1..k |->
                          ToolUse(<<n, i>>, calls[i].name, calls[i].input)] :
                        calls \in [1..k -> ToolCalls]} : k \in 1..MaxBlocks}
    ELSE {<<ToolUse(<<n, 1>>, "search_documents", [query |-> Str("cap rates")])>>}

ModelResponses(n) ==
    {[stop_reason |-> "end_turn", content |-> <<TextBlock("answer")>>]} \cup
    {[stop_reason |-> "tool_use", content |-> blocks] : blocks \in ToolRequests(n)}

NoResponse == [stop_reason |-> "none", content |-> <<>>]
NoReply == [reply |-> <<>>, sources |-> <<>>, tool_calls |-> -1]

\* ClaudeService._execute_tool: never raises.
execute_tool(tool_name, tool_input) ==
    IF tool_name = "search_documents"
    THEN IF search_env.raises
         THEN [success |-> FALSE, error |-> "search failed"]
         ELSE [success |-> TRUE, query |-> Get(tool_input, "query", Str("")),
               total_found |-> Len(search_env.hits), results |-> search_env.hits]
    ELSE IF tool_name = "query_arcgis"
    THEN IF arcgis_env.raises
         THEN [success |-> FALSE, error |-> "arcgis failed"]
         ELSE [success |-> TRUE, layer |-> Get(tool_input, "layer", Str("parcels")),
               features |-> arcgis_env.features]
    ELSE [success |-> FALSE, error |-> <<"Unknown tool", tool_name>>]

\* json.dumps of a tool result
json_dumps(result) == <<"json", result>>

\* [block for block in response.content if block.type == "tool_use"]
tool_use_blocks(content) ==
    LET F[i \in 0..Len(content)] ==
            IF i = 0 THEN <<>>
            ELSE IF content[i].type = "tool_use"
                 THEN Append(F[i - 1], content[i]) ELSE F[i - 1]
    IN F[Len(content)]

\* The source string of one hit: the document name, with the page when the
\* hit has one (page_number 0 stands for None).
source_of(result) ==
    IF result.page_number # 0
    THEN <<result.document_name, " (page ", result.page_number, ")">>
    ELSE <<result.document_name>>

\* call_sources, reading only the first hit of a search
call_sources_first_hit(tool_name, tool_result) ==
    IF tool_name = "search_documents" /\ "results" \in DOMAIN tool_result
    THEN IF tool_result.results = <<>> THEN <<>>
         ELSE <<source_of(tool_result.results[1])>>
    ELSE <<>>

\* The sources one executed call adds: one per hit of a document search.
call_sources(tool_name, tool_result) ==
    IF tool_name = "search_documents" /\ "results" \in DOMAIN tool_result
    THEN [i \in 1..Len(tool_result.results) |-> source_of(tool_result.results[i])]
    ELSE <<>>

\* tool_result_turn, with its entries in reverse order of the requests
tool_result_turn_reversed(blocks, results) ==
    [role |-> "user",
     content |-> [i \in 1..Len(blocks) |->
                    [type |-> "tool_result",
                     tool_use_id |-> blocks[Len(blocks) + 1 - i].id,
                     content |-> json_dumps(results[Len(results)])]]]

\* The user turn that carries the tool results: one entry per block, each
\* holding `tool_result`, the variable the execution loop assigned last.
tool_result_turn(blocks, results) ==
    [role |-> "user",
     content |-> [i \in 1..Len(blocks) |->
                    [type |-> "tool_result",
                     tool_use_id |-> blocks[i].id,
                     content |-> json_dumps(results[Len(results)])]]]

\* chat() up to its first model call.
ChatInit ==
    /\ conversation_history \in Histories
    /\ llm_mode \in {"varied", "persistent"}
    /\ search_env \in SearchEnvs
    /\ arcgis_env \in ArcgisEnvs
    /\ messages = conversation_history \o
                    <<[role |-> "user", content |-> "question"]>>
    /\ response = NoResponse
    /\ sources = <<>>
    /\ tool_results = <<>>
    /\ chat_pc = "call_model"
    /\ n_calls = 0
    /\ rounds = 0
    /\ chat_ret = NoReply

ChatIdle ==
    /\ conversation_history = <<>>
    /\ llm_mode = "varied"
    /\ search_env = [raises |-> TRUE, hits |-> <<>>]
    /\ arcgis_env = [raises |-> TRUE, features |-> <<>>]
    /\ messages = <<>>
    /\ response = NoResponse
    /\ sources = <<>>
    /\ tool_results = <<>>
    /\ chat_pc = "idle"
    /\ n_calls = 0
    /\ rounds = 0
    /\ chat_ret = NoReply

\* await self.client.messages.create(...) answers.
ModelCall ==
    /\ chat_pc = "call_model"
    /\ n_calls < MaxModelCalls
    /\ \E r \in ModelResponses(n_calls + 1) : response' = r
    /\ n_calls' = n_calls + 1
    /\ chat_pc' = "responded"
    /\ UNCHANGED <<conversation_history, messages, sources, tool_results,
                   rounds, chat_ret, search_env, arcgis_env, llm_mode>>
    /\ UNCHANGED not_chat_vars

\* await self.client.messages.create(...) raises: chat() has no handler.
ModelCallFails ==
    /\ chat_pc = "call_model"
    /\ n_calls < MaxModelCalls
    /\ n_calls' = n_calls + 1
    /\ chat_pc' = "raised"
    /\ UNCHANGED <<conversation_history, messages, response, sources,
                   tool_results, rounds, chat_ret, search_env, arcgis_env, llm_mode>>
    /\ UNCHANGED not_chat_vars

\* The caller's list, if messages were the caller's list itself
caller_history_aliased(hist, appended) == hist \o appended

\* The caller's list after turns are appended to messages: line 91 builds
\* messages with `+`, a new list, so the appends do not reach it.
caller_history(hist, appended) == hist

\* One pass of `while response.stop_reason == "tool_use"`, up to the next
\* model call: every block is executed in order, then the assistant turn and
\* the tool-result turn are appended.
ToolRound ==
    /\ chat_pc = "responded"
    /\ response.stop_reason = "tool_use"
    /\ LET blocks == tool_use_blocks(response.content)
           results == [i \in 1..Len(blocks) |->
                         execute_tool(blocks[i].name, blocks[i].input)]
           SrcUpTo[i \in 0..Len(blocks)] ==
               IF i = 0 THEN sources
               ELSE SrcUpTo[i - 1] \o call_sources(blocks[i].name, results[i])
           appended == <<[role |-> "assistant", content |-> response.content],
                         tool_result_turn(blocks, results)>>
       IN /\ tool_results' = tool_results \o
                [i \in 1..Len(blocks) |->
                    [name |-> blocks[i].name, input |-> blocks[i].input,
                     result |-> results[i]]]
          /\ sources' = SrcUpTo[Len(blocks)]
          /\ messages' = messages \o appended
          /\ conversation_history' =
                caller_history(conversation_history, appended)
    /\ rounds' = rounds + 1
    /\ chat_pc' = "call_model"
    /\ UNCHANGED <<response, n_calls, chat_ret, search_env, arcgis_env, llm_mode>>
    /\ UNCHANGED not_chat_vars

\* list(set(xs)): the distinct elements of xs, each once, in any order.
list_of_set(xs) ==
    LET S == {xs[i] : i \in 1..Len(xs)}
    IN {l \in [1..Cardinality(S) -> S] :
           \A i, j \in 1..Cardinality(S) : l[i] = l[j] => i = j}

\* The loop ends: the text blocks are joined and the reply is returned.
ChatReturnEarly ==
    /\ chat_pc = "responded"
    /\ \E srcs \in list_of_set(sources) :
         chat_ret' =
           [reply |-> [i \in 1..Len(response.content) |-> "answer"],
            sources |-> srcs,
            tool_calls |-> Len(tool_results)]
    /\ chat_pc' = "done"
    /\ UNCHANGED <<conversation_history, messages, response, sources,
                   tool_results, n_calls, rounds, search_env, arcgis_env, llm_mode>>
    /\ UNCHANGED not_chat_vars

\* The loop is left and chat() returns: the reply is the text blocks of the
\* last response (joined with newlines), the sources are deduplicated.
ChatReturn ==
    /\ chat_pc = "responded"
    /\ response.stop_reason # "tool_use"
    /\ \E srcs \in list_of_set(sources) :
         chat_ret' =
           [reply |-> [i \in 1..Len(response.content) |-> response.content[i].text],
            sources |-> srcs,
            tool_calls |-> Len(tool_results)]
    /\ chat_pc' = "done"
    /\ UNCHANGED <<conversation_history, messages, response, sources,
                   tool_results, n_calls, rounds, search_env, arcgis_env, llm_mode>>
    /\ UNCHANGED not_chat_vars

Next == ModelCall \/ ModelCallFails \/ ToolRound \/ ChatReturn


(***************************************************************************)
(* simple_backend.chat and simple_backend.execute_tool                     *)
(*                                                                         *)
(* The model's first MaxSbRounds answers may request tools; the first      *)
(* tool_use block of an answer ranges over the tools below, further blocks *)
(* of the same answer are place searches.                                  *)
(***************************************************************************)
SbToolNames == {"search_places", "get_flood_zones", "get_weather"}

\* What search_poi returns during the turn: the features of its GeoJSON.
PoiEnvs == {<<>>, <<"poi-1", "poi-2">>}

\* The three demo zones fetch_fema_flood_zones returns.
FemaFeatures == <<"zone-AE", "zone-A", "zone-X">>

SbToolInputs(name) ==
    IF name = "search_places"
    THEN {[query |-> Str("coffee")]}
    ELSE IF name = "get_flood_zones"
    THEN {[location |-> Str("austin")], [location |-> Integer("78701")]}
    ELSE {[city |-> Str("Austin")]}

SbToolCalls == {c \in [name : SbToolNames,
                        input : UNION {SbToolInputs(t) : t \in SbToolNames}] :
                   c.input \in SbToolInputs(c.name)}

\* The answers the model may give to its n-th call of the turn.  An answer
\* with stop_reason "tool_use" may also hold no tool_use block at all.
SbResponses(n) ==
    {[stop_reason |-> "end_turn", content |-> <<TextBlock("answer")>>],
     [stop_reason |-> "end_turn", content |-> <<>>]} \cup
    (IF n > MaxSbRounds THEN {}
     ELSE {[stop_reason |-> "tool_use", content |-> <<TextBlock("thinking")>>]} \cup
          UNION {{[stop_reason |-> "tool_use",
                   content |-> [i \in 1..k |->
                       IF i = 1 THEN ToolUse(<<n, 1>>, c.name, c.input)
                       ELSE ToolUse(<<n, i>>, "search_places",
                                    [query |-> Str("coffee")])]] :
                      c \in SbToolCalls} : k \in 1..MaxBlocks})

Returned(value) == [raised |-> FALSE, value |-> value]
Raised(error) == [raised |-> TRUE, error |-> error]

\* execute_tool: its branches have no common exception handler, so
\* `location.lower()` of a location that is no string raises out of it.
sb_execute_tool(tool_name, tool_input) ==
    IF tool_name = "search_places"
    THEN Returned([geojson |-> [type |-> "FeatureCollection",
                                features |-> poi_env,
                                metadata |-> [count |-> Len(poi_env)]],
                   total_found |-> Len(poi_env),
                   query |-> Get(tool_input, "query", Str("")),
                   location |-> Get(tool_input, "location", Str("San Francisco"))])
    ELSE IF tool_name = "get_flood_zones"
    THEN LET location == Get(tool_input, "location", Str(""))
         IN IF location.type # "string"
            THEN Raised("AttributeError")
            ELSE Returned([geojson |-> [type |-> "FeatureCollection",
                                        features |-> FemaFeatures],
                           location |-> location,
                           total_zones |-> Len(FemaFeatures),
                           bbox |-> "-97.9,30.1,-97.6,30.5"])
    ELSE Returned([error |-> <<"Unknown tool", tool_name>>])

\* next((block for block in response.content if block.type == "tool_use"), None)
first_tool_use(content) == tool_use_blocks(content)[1]

has_tool_use(content) == tool_use_blocks(content) # <<>>

\* The features one tool result adds to all_geojson_features.
result_features(tool_result) ==
    IF "geojson" \in DOMAIN tool_result
    THEN IF "features" \in DOMAIN tool_result.geojson
         THEN tool_result.geojson.features ELSE <<>>
    ELSE <<>>

None == [type |-> "None"]
NoSbReply == [status |-> 0]

\* chat() up to its first model call.
SbInit ==
    /\ poi_env \in PoiEnvs
    /\ sb_response = NoResponse
    /\ tool_calls = <<>>
    /\ all_geojson_features = <<>>
    /\ sb_messages = <<[role |-> "user", content |-> "question"]>>
    /\ sb_pc = "call_model"
    /\ sb_n_calls = 0
    /\ sb_ret = NoSbReply

SbIdle ==
    /\ poi_env = <<>>
    /\ sb_response = NoResponse
    /\ tool_calls = <<>>
    /\ all_geojson_features = <<>>
    /\ sb_messages = <<>>
    /\ sb_pc = "idle"
    /\ sb_n_calls = 0
    /\ sb_ret = NoSbReply

\* anthropic.messages.create(...) answers.
SbModelCall ==
    /\ sb_pc = "call_model"
    /\ \E r \in SbResponses(sb_n_calls + 1) : sb_response' = r
    /\ sb_n_calls' = sb_n_calls + 1
    /\ sb_pc' = "responded"
    /\ UNCHANGED <<poi_env, tool_calls, all_geojson_features, sb_messages, sb_ret>>
    /\ UNCHANGED not_sb_vars

\* anthropic.messages.create(...) raises: the endpoint answers HTTP 500.
SbModelCallFails ==
    /\ sb_pc = "call_model"
    /\ sb_n_calls' = sb_n_calls + 1
    /\ sb_pc' = "raised"
    /\ sb_ret' = [status |-> 500,
                  detail |-> <<"Error communicating with Claude", "APIError">>]
    /\ UNCHANGED <<poi_env, sb_response, tool_calls, all_geojson_features,
                   sb_messages>>
    /\ UNCHANGED not_sb_vars

\* One pass of the loop whose tool returns: the first tool_use block is
\* executed, its features are collected, and the next model call is given
\* the question, this answer and this tool result.
SbToolRound ==
    /\ sb_pc = "responded"
    /\ sb_response.stop_reason = "tool_use"
    /\ has_tool_use(sb_response.content)
    /\ LET tool_use == first_tool_use(sb_response.content)
           outcome == sb_execute_tool(tool_use.name, tool_use.input)
       IN /\ ~outcome.raised
          /\ tool_calls' = Append(tool_calls,
                [name |-> tool_use.name, input |-> tool_use.input,
                 result |-> outcome.value])
          /\ all_geojson_features' =
                all_geojson_features \o result_features(outcome.value)
          /\ sb_messages' =
                <<[role |-> "user", content |-> "question"],
                  [role |-> "assistant", content |-> sb_response.content],
                  [role |-> "user",
                   content |-> <<[type |-> "tool_result",
                                  tool_use_id |-> tool_use.id,
                                  content |-> <<"str", outcome.value>>]>>]>>
    /\ sb_pc' = "call_model"
    /\ UNCHANGED <<poi_env, sb_response, sb_n_calls, sb_ret>>
    /\ UNCHANGED not_sb_vars

\* One pass of the loop whose tool raises: the exception leaves the loop and
\* the endpoint answers HTTP 500.
SbToolRaises ==
    /\ sb_pc = "responded"
    /\ sb_response.stop_reason = "tool_use"
    /\ has_tool_use(sb_response.content)
    /\ LET tool_use == first_tool_use(sb_response.content)
           outcome == sb_execute_tool(tool_use.name, tool_use.input)
       IN /\ outcome.raised
          /\ sb_ret' = [status |-> 500,
                        detail |-> <<"Error communicating with Claude",
                                     outcome.error>>]
    /\ sb_pc' = "raised"
    /\ UNCHANGED <<poi_env, sb_response, tool_calls, all_geojson_features,
                   sb_messages, sb_n_calls>>
    /\ UNCHANGED not_sb_vars

\* next((block.text for block in response.content if hasattr(block, "text")), ...)
text_response(content) ==
    LET texts == SelectSeq(content, LAMBDA b : b.type = "text")
    IN IF texts = <<>> THEN "I apologize, but I couldn't generate a response."
       ELSE texts[1].text

\* The loop ends (no tool requested, or no tool_use block found).
SbReturn ==
    /\ sb_pc = "responded"
    /\ \/ sb_response.stop_reason # "tool_use"
       \/ ~has_tool_use(sb_response.content)
    /\ sb_ret' =
         [status |-> 200,
          reply |-> text_response(sb_response.content),
          tool_calls |-> IF tool_calls # <<>> THEN tool_calls ELSE None,
          geojson |-> IF all_geojson_features # <<>>
                      THEN [type |-> "FeatureCollection",
                            features |-> all_geojson_features]
                      ELSE None]
    /\ sb_pc' = "done"
    /\ UNCHANGED <<poi_env, sb_response, tool_calls, all_geojson_features,
                   sb_messages, sb_n_calls>>
    /\ UNCHANGED not_sb_vars

SbNext ==
    SbModelCall \/ SbModelCallFails \/ SbToolRound \/ SbToolRaises \/ SbReturn

(***************************************************************************)
(* routes/chat.py send_message                                             *)
(*                                                                         *)
(* Each request runs in a worker of its own against the shared database:   *)
(* it reads the history, calls the model, then saves both turns in one     *)
(* commit.  Nothing in the handler excludes another request of the same    *)
(* session between these steps.  The table is kept in timestamp order.     *)
(***************************************************************************)
Requests == 1..MaxRequests

SessionIds == {"default", "other"}

HistoryLimit == 10      \* `.limit(10)`

Question(r) == <<"question", r>>
Answer(r) == <<"answer", r>>

ChatMessageRow(session_id, role, content) ==
    [session_id |-> session_id, role |-> role, content |-> content]

\* A table of n earlier exchanges (a user row and its assistant row each):
\* the third exchange belongs to session "other", the others to "default".
StoredTable(n) ==
    [i \in 1..(2 * n) |->
        ChatMessageRow(IF i \in {5, 6} THEN "other" ELSE "default",
                       IF i % 2 = 1 THEN "user" ELSE "assistant",
                       <<"earlier", i>>)]

\* The tables the requests may find: empty, one earlier exchange, or more
\* turns of a session than the history query returns.
InitialTables ==
    {<<>>,
     <<ChatMessageRow("default", "user", Question(0)),
       ChatMessageRow("default", "assistant", Answer(0))>>,
     StoredTable(MaxStored)}

\* The first n elements of a sequence
FirstN(seq, n) ==
    IF Len(seq) <= n THEN seq ELSE SubSeq(seq, 1, n)

\* The last n elements of a sequence, in order.
LastN(seq, n) ==
    IF Len(seq) <= n THEN seq ELSE SubSeq(seq, Len(seq) - n + 1, Len(seq))

\* query(...).filter(session_id).order_by(timestamp.desc()).limit(10).all(),
\* then reversed(history): the last ten rows of the session, oldest first.
history(session_id) ==
    LastN(SelectSeq(chat_messages, LAMBDA m : m.session_id = session_id),
          HistoryLimit)

\* The messages sent to the model: the history, then the new user message.
build_messages(session_id, message) ==
    LET h == history(session_id)
    IN [i \in 1..Len(h) |-> [role |-> h[i].role, content |-> h[i].content]]
       \o <<[role |-> "user", content |-> message]>>

\* saved_turns, with the user turn only
saved_turns_user_only(session_id, message, assistant_message) ==
    <<ChatMessageRow(session_id, "user", message)>>

\* The rows one request adds before its commit.
saved_turns(session_id, message, assistant_message) ==
    <<ChatMessageRow(session_id, "user", message),
      ChatMessageRow(session_id, "assistant", assistant_message)>>

NoAnswer == [status |-> 0]

NoDelete == [status |-> "none", messages_deleted |-> 0]

\* No DELETE /history request is made.
ClearIdle ==
    /\ clr_session = "default"
    /\ clr_pc = "idle"
    /\ clr_ret = NoDelete

SendInit ==
    /\ chat_messages \in InitialTables
    /\ req_session \in [Requests -> SessionIds]
    /\ req_pc = [r \in Requests |-> "start"]
    /\ req_messages = [r \in Requests |-> <<>>]
    /\ req_ret = [r \in Requests |-> NoAnswer]

RouteInit == SendInit /\ ClearIdle

\* The requests of RouteInit and one DELETE /history/{session_id}.
RouteClearInit ==
    /\ SendInit
    /\ clr_session \in SessionIds
    /\ clr_pc = "start"
    /\ clr_ret = NoDelete

RouteIdle ==
    /\ chat_messages = <<>>
    /\ req_session = [r \in Requests |-> "default"]
    /\ req_pc = [r \in Requests |-> "idle"]
    /\ req_messages = [r \in Requests |-> <<>>]
    /\ req_ret = [r \in Requests |-> NoAnswer]
    /\ ClearIdle

\* The request reads its history and builds the messages for the model.
SendRead(r) ==
    /\ req_pc[r] = "start"
    /\ req_messages' = [req_messages EXCEPT
                           ![r] = build_messages(req_session[r], Question(r))]
    /\ req_pc' = [req_pc EXCEPT ![r] = "calling"]
    /\ UNCHANGED <<chat_messages, req_session, req_ret, clr_vars>>
    /\ UNCHANGED not_route_vars

\* anthropic_client.messages.create answers; both turns are added and
\* committed, and the reply is returned with the session id.
SendSave(r) ==
    /\ req_pc[r] = "calling"
    /\ chat_messages' = chat_messages \o
                           saved_turns(req_session[r], Question(r), Answer(r))
    /\ req_ret' = [req_ret EXCEPT
                     ![r] = [status |-> 200, response |-> Answer(r),
                             session_id |-> req_session[r]]]
    /\ req_pc' = [req_pc EXCEPT ![r] = "done"]
    /\ UNCHANGED <<req_session, req_messages, clr_vars>>
    /\ UNCHANGED not_route_vars

\* anthropic_client.messages.create raises (or its answer has no content):
\* `except Exception` answers HTTP 500 before any row was added.
SendFails(r) ==
    /\ req_pc[r] = "calling"
    /\ req_ret' = [req_ret EXCEPT ![r] = [status |-> 500]]
    /\ req_pc' = [req_pc EXCEPT ![r] = "failed"]
    /\ UNCHANGED <<chat_messages, req_session, req_messages, clr_vars>>
    /\ UNCHANGED not_route_vars

Read == \E r \in Requests : SendRead(r)
Save == \E r \in Requests : SendSave(r)
Fail == \E r \in Requests : SendFails(r)

RouteNext == Read \/ Save \/ Fail

\* clear_chat_history, deleting every row
rows_after_delete_all(table, session_id) == <<>>

\* query(ChatMessage).filter(session_id == ...).delete(): the rows left.
rows_after_delete(table, session_id) ==
    SelectSeq(table, LAMBDA m : m.session_id # session_id)

\* clear_chat_history: the delete, the commit and the answer.
Clear ==
    /\ clr_pc = "start"
    /\ chat_messages' = rows_after_delete(chat_messages, clr_session)
    /\ clr_ret' = [status |-> "success",
                   messages_deleted |->
                      Len(chat_messages) -
                      Len(rows_after_delete(chat_messages, clr_session))]
    /\ clr_pc' = "done"
    /\ UNCHANGED <<req_session, req_pc, req_messages, req_ret, clr_session>>
    /\ UNCHANGED not_route_vars

RouteClearNext == Read \/ Save \/ Fail \/ Clear

(***************************************************************************)
(* FileProcessor._process_pdf (services/file_processor.py), followed by    *)
(* RAGService.store_document_chunks of the chunks it returned              *)
(***************************************************************************)
PageTexts == UNION {[1..n -> {"a", " "}] : n \in 0..MaxPageLen}

Pdfs == UNION {[1..n -> PageTexts] : n \in 0..MaxPages}

\* range(0, len(text), chunk_size) of one page: a chunk dict per step, its
\* chunk_index counted within the page.
page_chunks(page_num, page_text, size) ==
    LET steps == (Len(page_text) + size - 1) \div size
    IN [k \in 1..steps |->
           [page_number |-> page_num,
            content |-> Slice(page_text, (k - 1) * size, k * size),
            chunk_index |-> ((k - 1) * size) \div size]]

\* `if text and text.strip()`
has_text(page_text) == page_text # <<>> /\ strip(page_text) # <<>>

\* The pdfplumber branch: the chunks of every page that has text.
RECURSIVE process_pdf(_, _, _)
process_pdf(pages, page_num, size) ==
    IF page_num > Len(pages) THEN <<>>
    ELSE (IF has_text(pages[page_num])
          THEN page_chunks(page_num, pages[page_num], size) ELSE <<>>)
         \o process_pdf(pages, page_num + 1, size)

\* The PyPDF2 fallback: one chunk per page that has text, each with index 0.
RECURSIVE process_pdf_fallback(_, _)
process_pdf_fallback(pages, page_num) ==
    IF page_num > Len(pages) THEN <<>>
    ELSE (IF has_text(pages[page_num])
          THEN <<[page_number |-> page_num, content |-> pages[page_num],
                  chunk_index |-> 0]>>
          ELSE <<>>)
         \o process_pdf_fallback(pages, page_num + 1)

\* What the embeddings provider does for the chunks of the upload.
PdfProviderOutcomes(n) ==
    {[ok |-> FALSE, vecs |-> <<>>],
     [ok |-> TRUE, vecs |-> [i \in 1..n |-> <<1, 0>>]]}

PdfInit ==
    /\ pdf_pages \in Pdfs
    /\ pdf_chunk_size \in 1..MaxPageLen
    /\ pdf_chunks = <<>>
    /\ pdf_pc = "uploaded"

PdfIdle ==
    /\ pdf_pages = <<>>
    /\ pdf_chunk_size = 1
    /\ pdf_chunks = <<>>
    /\ pdf_pc = "idle"

\* _process_pdf, pdfplumber reading the file.
ProcessPdf ==
    /\ pdf_pc = "uploaded"
    /\ pdf_chunks' = process_pdf(pdf_pages, 1, pdf_chunk_size)
    /\ pdf_pc' = "processed"
    /\ UNCHANGED <<pdf_pages, pdf_chunk_size>>
    /\ UNCHANGED not_pdf_vars

\* _process_pdf, pdfplumber raising and PyPDF2 reading the file.
ProcessPdfFallback ==
    /\ pdf_pc = "uploaded"
    /\ pdf_chunks' = process_pdf_fallback(pdf_pages, 1)
    /\ pdf_pc' = "processed"
    /\ UNCHANGED <<pdf_pages, pdf_chunk_size>>
    /\ UNCHANGED not_pdf_vars

\* store_document_chunks("d1", name, chunks) of the chunks returned.
StorePdfChunks ==
    /\ pdf_pc = "processed"
    /\ \E out \in PdfProviderOutcomes(Len(pdf_chunks)) :
         rag_chunks' = rag_chunks \o
             new_rows("d1",
                      [i \in 1..Len(pdf_chunks) |-> pdf_chunks[i].chunk_index],
                      create_embeddings(Len(pdf_chunks), out))
    /\ pdf_pc' = "stored"
    /\ UNCHANGED <<pdf_pages, pdf_chunk_size, pdf_chunks>>
    /\ UNCHANGED <<api_key_set, embedding_dim, rag_ret>>
    /\ UNCHANGED not_pdf_rag_vars

PdfNext == ProcessPdf \/ ProcessPdfFallback \/ StorePdfChunks

(***************************************************************************)
(* Specifications                                                          *)
(***************************************************************************)
Init == ChunkIdle /\ IngestIdle /\ RagIdle /\ ChatInit /\ SbIdle /\ RouteIdle /\ PdfIdle

Spec == Init /\ [][Next]_vars

InitChunk == ChunkInit /\ IngestIdle /\ RagIdle /\ ChatIdle /\ SbIdle /\ RouteIdle /\ PdfIdle

SpecChunk == InitChunk /\ [][ChunkNext]_vars

InitIngest == ChunkIdle /\ IngestIdle /\ RagIdle /\ ChatIdle /\ SbIdle /\ RouteIdle /\ PdfIdle

SpecIngest == InitIngest /\ [][IngestNext]_vars

InitRag == ChunkIdle /\ IngestIdle /\ RagInit /\ ChatIdle /\ SbIdle /\ RouteIdle /\ PdfIdle

SpecRag == InitRag /\ [][RagNext]_vars

InitSimple == ChunkIdle /\ IngestIdle /\ RagIdle /\ ChatIdle /\ SbInit /\ RouteIdle /\ PdfIdle

SpecSimple == InitSimple /\ [][SbNext]_vars

InitRoute == ChunkIdle /\ IngestIdle /\ RagIdle /\ ChatIdle /\ SbIdle /\ RouteInit /\ PdfIdle

SpecRoute == InitRoute /\ [][RouteNext]_vars

InitRouteClear ==
    ChunkIdle /\ IngestIdle /\ RagIdle /\ ChatIdle /\ SbIdle /\ RouteClearInit /\ PdfIdle

SpecRouteClear == InitRouteClear /\ [][RouteClearNext]_vars

InitPdf ==
    ChunkIdle /\ IngestIdle /\ RagInit /\ ChatIdle /\ SbIdle /\ RouteIdle /\ PdfInit

SpecPdf == InitPdf /\ [][PdfNext]_vars

(***************************************************************************)
(* Claims about DocumentChunker.chunk_text                                 *)
(***************************************************************************)
ValidChunkParams == 0 <= overlap /\ overlap < chunk_size

\* C3: for every text and every (chunk_size, overlap) with
\* 0 <= overlap < chunk_size, each loop iteration of chunk_text leaves the
\* cursor `start` strictly greater than it found it.
C3_CursorStrictlyIncreases ==
    [][(ValidChunkParams /\ ck_iter' = ck_iter + 1) => start' > start]_vars

(***************************************************************************)
(* Claims about ingestion                                                  *)
(***************************************************************************)
RowsOf(doc) == {r \in document_chunks : r.document_id = doc}

\* C4: when the embedding of any chunk of a document fails, whatever its
\* position, the ingestion ends with no Document row and no DocumentChunk
\* row of that document persisted.
C4_FailedIngestPersistsNothing ==
    ing_pc = "failed" => (ing_doc \notin documents /\ RowsOf(ing_doc) = {})

(***************************************************************************)
(* Claims about RAGService                                                 *)
(***************************************************************************)
Searched == rag_ret.op = "search"
SearchReturned == Searched /\ rag_ret.status = "ok"

ZeroNorm(e) == Dot(e.v, e.v) = 0

DocRank(d) == IF d = "d1" THEN 1 ELSE 2

\* C5: no persisted chunk holds the zero placeholder vector that
\* create_embeddings substitutes on a provider error or a missing API key.
C5_NoPlaceholderStored ==
    \A i \in 1..Len(rag_chunks) : rag_chunks[i].embedding # Placeholder

\* C6: the index holds at most one entry per (document_id, chunk_index).
C6_OneEntryPerPair ==
    \A i, j \in 1..Len(rag_chunks) :
        (/\ rag_chunks[i].document_id = rag_chunks[j].document_id
         /\ rag_chunks[i].chunk_index = rag_chunks[j].chunk_index) => i = j

\* C7: search results are in descending score order, and two results of the
\* same score appear with the lower chunk index first, then the lower
\* document id.
C7_RankedWithTieBreak ==
    SearchReturned =>
        \A i, j \in 1..Len(rag_ret.results) :
            i < j =>
                LET a == rag_ret.results[i]
                    b == rag_ret.results[j]
                IN \/ ScoreGreater(a.score, b.score)
                   \/ /\ ScoreEqual(a.score, b.score)
                      /\ \/ a.chunk.chunk_index < b.chunk.chunk_index
                         \/ /\ a.chunk.chunk_index = b.chunk.chunk_index
                            /\ DocRank(a.chunk.document_id) <= DocRank(b.chunk.document_id)

\* C8: a search with k >= 1 returns at most k results, every returned chunk
\* has the dimension of the query vector, and a search of an empty index
\* returns the empty sequence, not an error.
C8_AtMostKSameDimension ==
    Searched =>
        /\ rag_ret.k >= 1
        /\ Len(rag_ret.results) <= rag_ret.k
        /\ \A i \in 1..Len(rag_ret.results) :
              rag_ret.results[i].chunk.embedding.dim = rag_ret.query.dim
        /\ (rag_chunks = <<>> => rag_ret.status = "ok" /\ rag_ret.results = <<>>)

\* C8 witness: a search that returned exactly k results from a candidate set
\* of more than k rows.
C8_Witness ==
    /\ SearchReturned
    /\ Len(rag_ret.results) = rag_ret.k
    /\ Len(candidates(rag_ret.filter)) > rag_ret.k

\* C9: a returned chunk scored against a zero-norm vector (its own or the
\* query's) has score 0, and a returned chunk whose own vector has zero norm
\* comes after every returned chunk whose vector has non-zero norm.
C9_ZeroNormSortsLast ==
    SearchReturned =>
        \A i \in 1..Len(rag_ret.results) :
            LET a == rag_ret.results[i]
            IN /\ (ZeroNorm(rag_ret.query) \/ ZeroNorm(a.chunk.embedding))
                     => a.score.sgn = 0
               /\ ZeroNorm(a.chunk.embedding) =>
                     \A j \in 1..Len(rag_ret.results) :
                         ~ZeroNorm(rag_ret.results[j].chunk.embedding) => j < i

\* C10: all stored embeddings have the same dimension.
C10_OneDimension ==
    \A i, j \in 1..Len(rag_chunks) :
        rag_chunks[i].embedding.dim = rag_chunks[j].embedding.dim

(***************************************************************************)
(* Claims about ClaudeService.chat                                         *)
(***************************************************************************)
\* Where round r put its two turns in `messages`.
RequestTurn(r) == messages[Len(conversation_history) + 2 * r]
ResultTurn(r) == messages[Len(conversation_history) + 2 * r + 1]

\* C1: whatever the model answers, a turn performs at most ten tool
\* round-trips.
C1_RoundTripsCapped == rounds <= 10

\* C2: the tool-result turn of every round holds one entry per requested
\* call, and the entry with the identifier of call i holds the result of
\* executing call i.
C2_ResultsCorrelated ==
    \A r \in 1..rounds :
        LET blocks == tool_use_blocks(RequestTurn(r).content)
            entries == ResultTurn(r).content
        IN /\ Len(entries) = Len(blocks)
           /\ \A i \in 1..Len(blocks) :
                 /\ entries[i].tool_use_id = blocks[i].id
                 /\ entries[i].content =
                        json_dumps(execute_tool(blocks[i].name, blocks[i].input))

\* The input_schema of self.tools: the required field is present and a string.
SchemaValid(name, input) ==
    IF name = "search_documents"
    THEN "query" \in DOMAIN input /\ input.query.type = "string"
    ELSE IF name = "query_arcgis"
    THEN "layer" \in DOMAIN input /\ input.layer.type = "string"
    ELSE TRUE

\* C11: a tool call whose arguments violate the tool's input schema is not
\* executed: its recorded result is the ToolInputInvalid failure.
C11_InvalidInputNotExecuted ==
    \A i \in 1..Len(tool_results) :
        ~SchemaValid(tool_results[i].name, tool_results[i].input) =>
            /\ tool_results[i].result.success = FALSE
            /\ tool_results[i].result.error = "ToolInputInvalid"

\* C14: the i-th entry of the tool-result turn of every round carries the
\* call identifier of the i-th tool_use block of the answer it replies to.
C14_ResultsInRequestOrder ==
    \A r \in 1..rounds :
        LET blocks == tool_use_blocks(RequestTurn(r).content)
            entries == ResultTurn(r).content
        IN /\ Len(entries) = Len(blocks)
           /\ \A i \in 1..Len(blocks) : entries[i].tool_use_id = blocks[i].id

\* C14 witness: a finished turn with a round of two requested calls.
C14_Witness ==
    /\ chat_pc = "done"
    /\ rounds >= 1
    /\ Len(ResultTurn(1).content) >= 2

\* The hits of every document search of the turn, over all rounds.
SearchHits ==
    UNION {{tool_results[i].result.results[j] :
                j \in 1..Len(tool_results[i].result.results)} :
           i \in {k \in 1..Len(tool_results) :
                     /\ tool_results[k].name = "search_documents"
                     /\ "results" \in DOMAIN tool_results[k].result}}

\* The feature collection returned with a reply (none: the empty sequence).
returned_features(ret) ==
    IF "geojson" \in DOMAIN ret THEN ret.geojson.features
    ELSE IF "features" \in DOMAIN ret THEN ret.features
    ELSE <<>>

\* The features the executed calls of the turn returned, in execution order.
RECURSIVE features_of(_)
features_of(calls) ==
    IF calls = <<>> THEN <<>>
    ELSE (IF "features" \in DOMAIN calls[1].result
          THEN calls[1].result.features ELSE <<>>) \o features_of(Tail(calls))

\* C17: the feature collection returned with the reply holds exactly the
\* features the tool calls of the turn returned, in execution order.
C17_FeaturesReturned ==
    chat_pc = "done" => returned_features(chat_ret) = features_of(tool_results)

\* C18: when the turn ends, sources names the document of every hit of
\* every document search of the turn, holds each distinct source once, and
\* holds nothing but the sources of those hits.
C18_SourcesAreSearchHits ==
    chat_pc = "done" =>
        /\ \A h \in SearchHits :
               \E i \in 1..Len(chat_ret.sources) :
                  /\ chat_ret.sources[i] = source_of(h)
                  /\ chat_ret.sources[i][1] = h.document_name
        /\ \A i \in 1..Len(chat_ret.sources) :
               \E h \in SearchHits : chat_ret.sources[i] = source_of(h)
        /\ \A i, j \in 1..Len(chat_ret.sources) :
               chat_ret.sources[i] = chat_ret.sources[j] => i = j

\* C18 witness: a finished turn whose searches hit the same document page
\* more than once, and another document.
C18_Witness ==
    /\ chat_pc = "done"
    /\ Len(sources) > Len(chat_ret.sources)
    /\ Len(chat_ret.sources) >= 2

(***************************************************************************)
(* Claims about simple_backend.chat                                        *)
(***************************************************************************)
\* C12: for every tool name and input, executing a tool lets no exception
\* reach the orchestrator loop: after an answer that requests a tool, the
\* loop goes on to the next model call.
C12_NoToolExceptionReachesLoop ==
    [][(/\ sb_pc = "responded"
        /\ sb_response.stop_reason = "tool_use"
        /\ has_tool_use(sb_response.content)) => sb_pc' = "call_model"]_vars

\* C13: when one answer requests several tool calls, every requested call
\* is executed and gets a tool result in the same turn: the tool-result
\* message handed to the next model call holds one entry per tool_use block
\* of the answer, and as many calls were recorded as were requested so far.
C13_EveryRequestedCallExecuted ==
    (sb_pc = "call_model" /\ sb_n_calls > 0) =>
        /\ Len(sb_messages[3].content) = Len(tool_use_blocks(sb_response.content))
        /\ \A i \in 1..Len(tool_use_blocks(sb_response.content)) :
              \E j \in 1..Len(tool_calls) :
                 /\ tool_calls[j].name = tool_use_blocks(sb_response.content)[i].name
                 /\ sb_messages[3].content[i].tool_use_id =
                        tool_use_blocks(sb_response.content)[i].id

(***************************************************************************)
(* Claims about routes/chat.py send_message                                *)
(***************************************************************************)
\* The positions of the stored rows that hold the given content.
RowsWith(content) ==
    {i \in 1..Len(chat_messages) : chat_messages[i].content = content}

\* C15: two requests on the same session are serialized: once both are
\* done, the request whose turns are stored later has sent the model the
\* user turn and the assistant turn of the other.
C15_SameConversationSerialized ==
    \A a, b \in Requests :
        (/\ a # b
         /\ req_session[a] = req_session[b]
         /\ req_pc[a] = "done" /\ req_pc[b] = "done"
         /\ \A i \in RowsWith(Question(a)) :
               \A j \in RowsWith(Question(b)) : i < j) =>
            /\ \E i \in 1..Len(req_messages[b]) :
                  req_messages[b][i] = [role |-> "user", content |-> Question(a)]
            /\ \E i \in 1..Len(req_messages[b]) :
                  req_messages[b][i] = [role |-> "assistant", content |-> Answer(a)]

C19_OverlapRejected ==
    overlap >= chunk_size =>
        /\ chunks = <<>>
        /\ ck_pc \in {"entry", "ConfigurationError"}

\* The characters of the text that some emitted chunk was sliced from.
Covered == {i \in 1..Len(text) :
               \E k \in 1..Len(ranges) : ranges[k][1] < i /\ i <= ranges[k][2]}

\* C20: for every non-empty text and every chunk_size and overlap with
\* 0 <= overlap < chunk_size, the chunks returned cover the text: every
\* character of the text that is not whitespace lies in the slice of some
\* chunk.
C20_ChunksCoverText ==
    (ck_pc = "returned" /\ ValidChunkParams /\ text # <<>>) =>
        \A i \in 1..Len(text) : text[i] \notin Whitespace => i \in Covered

\* C21 as stated: chunk_text of the empty text returns no chunk, and of any
\* text shorter than chunk_size returns exactly one chunk.
C21_ShortTextOneChunk ==
    ck_pc = "returned" =>
        /\ text = <<>> => chunks = <<>>
        /\ (0 < Len(text) /\ Len(text) < chunk_size) => Len(chunks) = 1

\* C21 amended: chunk_text of the empty text returns no chunk without
\* entering its loop; of a text shorter than chunk_size it runs one
\* iteration and returns the stripped text as its one chunk, or no chunk
\* when the text is whitespace only.
C21_ShortTextStripped ==
    /\ (text = <<>> /\ ck_pc # "entry") =>
          (ck_pc = "returned" /\ chunks = <<>> /\ ck_iter = 0)
    /\ (0 < Len(text) /\ Len(text) < chunk_size /\ ck_iter >= 1) =>
          /\ ck_iter = 1
          /\ start >= Len(text)
          /\ chunks = IF strip(text) = <<>> THEN <<>> ELSE <<strip(text)>>

\* C21 witness: a returned call on a text shorter than chunk_size whose one
\* chunk lost surrounding whitespace.
C21_Witness ==
    /\ ck_pc = "returned"
    /\ 0 < Len(text) /\ Len(text) < chunk_size
    /\ Len(chunks) = 1
    /\ chunks[1] # text
    /\ overlap > 0

(***************************************************************************)
(* Claims about the chunks of an ingested document                         *)
(***************************************************************************)
\* The stored rows of a document in RAGService's table.
RagRowsOf(d) == {i \in 1..Len(rag_chunks) : rag_chunks[i].document_id = d}

\* C22: for every ingested document with n stored chunks, the stored
\* chunk_index values are exactly 0 .. n-1, each used once.
C22_ChunkIndexContiguous ==
    pdf_pc = "stored" =>
        /\ {rag_chunks[i].chunk_index : i \in RagRowsOf("d1")} =
               0..(Cardinality(RagRowsOf("d1")) - 1)
        /\ \A i, j \in RagRowsOf("d1") :
               rag_chunks[i].chunk_index = rag_chunks[j].chunk_index => i = j

(***************************************************************************)
(* Claims about the model calls of a chat turn                             *)
(***************************************************************************)
\* C23: a failing language-model call is retried a bounded number of times
\* before the request ends in failure: a turn that ended with the failure of
\* a model call has attempted that call at least twice (every round so far
\* accounts for one answered call).
C23_FailedCallRetried ==
    chat_pc = "raised" => n_calls >= rounds + 2

\* C24: every model call of a turn receives the full history so far: the
\* call made after round r holds the user message and the (tool-request
\* turn, tool-result turn) pairs of all rounds 1..r in order, the pair of
\* round k answering the k-th executed tool call.
C24_FullHistorySent ==
    sb_pc = "call_model" =>
        /\ Len(sb_messages) = 1 + 2 * Len(tool_calls)
        /\ sb_messages[1] = [role |-> "user", content |-> "question"]
        /\ \A k \in 1..Len(tool_calls) :
              /\ 2 * k + 1 <= Len(sb_messages)
              /\ sb_messages[2 * k].role = "assistant"
              /\ first_tool_use(sb_messages[2 * k].content).name =
                    tool_calls[k].name
              /\ sb_messages[2 * k + 1].role = "user"
              /\ sb_messages[2 * k + 1].content[1].type = "tool_result"

\* The assistant turns that chat() added to messages in this turn.
AssistantTurns ==
    {i \in (Len(conversation_history) + 2)..Len(messages) :
        messages[i].role = "assistant"}

TerminatorsIn(t, s, e) ==
    {p \in Max2(s, 0)..(e - 2) :
        /\ p + 2 <= Len(t)
        /\ <<t[p + 1], t[p + 2]>> \in
              {<<".", " ">>, <<"!", " ">>, <<"?", " ">>, <<"\n", "\n">>}}

\* C26: in an iteration whose raw boundary start + chunk_size falls before
\* the end of the text, the chunk is cut just after the last sentence
\* terminator of the window [start, start + chunk_size); when the window
\* holds no terminator it is cut at start + chunk_size. (In such an
\* iteration the next cursor is the cut minus the overlap.)
C26_CutAtNearestTerminator ==
    [][(ck_pc = "loop" /\ ck_iter' = ck_iter + 1
          /\ start + chunk_size < Len(text))
        => LET win == TerminatorsIn(text, start, start + chunk_size)
               cut == start' + overlap
           IN IF win # {} THEN cut = SetMax(win) + 1
              ELSE cut = start + chunk_size]_ck_vars

(***************************************************************************)
(* Claims about what an ingestion reports                                  *)
(***************************************************************************)
\* C27: when store_document_for_rag has ended, on success or on failure, the
\* chunk count it returned equals the number of chunk rows that are
\* persisted for the document it was storing.
C27_ReportedCountIsStoredCount ==
    (ing_pc \in {"returned", "failed"} /\ ing_doc # 0) =>
        ing_ret[2] =
            Cardinality({r \in document_chunks : r.document_id = ing_doc})

SessionRows(s) ==
    {i \in 1..Len(chat_messages) : chat_messages[i].session_id = s}

RecentRows(s) ==
    {i \in SessionRows(s) :
        Cardinality({j \in SessionRows(s) : j > i}) < 10}

\* C29: the messages a request builds are the (at most 10) most recently
\* stored turns of its session, oldest first, followed by the new user
\* message; no turn of another session is among them.
C29_TenMostRecentOfSession ==
    [][\A r \in Requests :
          (req_pc[r] = "start" /\ req_pc'[r] = "calling") =>
             LET s == req_session[r]
                 sent == req_messages'[r]
                 n == Cardinality(RecentRows(s))
             IN /\ n <= 10
                /\ Len(sent) = n + 1
                /\ sent[n + 1] = [role |-> "user", content |-> Question(r)]
                /\ \A i \in RecentRows(s) :
                      LET k == Cardinality({j \in RecentRows(s) : j <= i})
                      IN sent[k] = [role |-> chat_messages[i].role,
                                    content |-> chat_messages[i].content]
      ]_route_vars

\* A request on a session with more than ten stored turns, in a table that
\* also holds turns of another session, has built its eleven messages.
C29_Witness ==
    \E r \in Requests :
        /\ req_pc[r] = "calling"
        /\ Cardinality(SessionRows(req_session[r])) > 10
        /\ \E i \in 1..Len(chat_messages) :
              chat_messages[i].session_id # req_session[r]
        /\ Len(req_messages[r]) = 11

\* The stored turns of session s, oldest first.
TurnsOf(table, s) == SelectSeq(table, LAMBDA m : m.session_id = s)

\* C30: clear_chat_history(s) removes every stored turn of session s and
\* leaves the turns of every other session as they were; a send_message
\* request that stores its turns adds them to its own session only.
C30_SessionsIndependent ==
    /\ [][(clr_pc = "start" /\ clr_pc' = "done") =>
             \A s \in SessionIds :
                TurnsOf(chat_messages', s) =
                   IF s = clr_session THEN <<>> ELSE TurnsOf(chat_messages, s)
        ]_route_vars
    /\ [][\A r \in Requests :
             (req_pc[r] = "calling" /\ req_pc'[r] = "done") =>
                \A s \in SessionIds :
                   TurnsOf(chat_messages', s) =
                      IF s = req_session[r]
                      THEN TurnsOf(chat_messages, s) \o
                              <<ChatMessageRow(s, "user", Question(r)),
                                ChatMessageRow(s, "assistant", Answer(r))>>
                      ELSE TurnsOf(chat_messages, s)
        ]_route_vars

\* A delete that removed turns of its session while turns of the other
\* session stay stored, after a request has stored its turns.
C30_Witness ==
    /\ clr_pc = "done"
    /\ clr_ret.messages_deleted > 0
    /\ TurnsOf(chat_messages, clr_session) = <<>>
    /\ \E s \in SessionIds : TurnsOf(chat_messages, s) # <<>>
    /\ \E r \in Requests : req_pc[r] = "done"

====
